---------------------------- MODULE Spec2Model ----------------------------
(***************************************************************************)
(* Model of the template parser of cheltuieli-app/language (src/index.ts). *)
(*                                                                         *)
(* parse() turns a parsed XML document into an Issue: one Article per      *)
(* <article> element, whose content is built by push() walking the         *)
(* article's child nodes, and one Terminology entry per <def> element.     *)
(*                                                                         *)
(* JavaScript strings are modelled as sequences of one-character strings,  *)
(* so that trim(), toLowerCase() and the template literal of displayId are *)
(* computed character by character as the code computes them.  The value   *)
(* undefined is the one-element tuple holding the word "undefined", which  *)
(* is no character and so differs from every string.                       *)
(***************************************************************************)
EXTENDS Integers, Sequences, FiniteSets, TLC

VARIABLES
  xml,          \* the parsed document handed to Parser.iterEach
  pc,           \* position of parse(): "iterEachArticle", "return", "done"
  i,            \* loop variable of iterEachArticle (0-based, as in the code)
  j,            \* loop variable over the article's childNodes
  ctx,          \* the IterContext of the article being walked
  articles,     \* Parser.articles, in insertion order
  terminology,  \* Parser.terminology, in insertion order
  issue         \* the value parse() returns

vars == <<xml, pc, i, j, ctx, articles, terminology, issue>>

---------------------------------------------------------------------------
(* JavaScript values *)

undefined == <<"undefined">>

\* A string is truthy when it is not empty; undefined is falsy.
Truthy(v) == v # undefined /\ v # <<>>

\* a || b
Or(a, b) == IF Truthy(a) THEN a ELSE b

WhiteSpace == {" ", "\n", "\t"}

\* String.prototype.trim: strips white space from both ends.
RECURSIVE TrimStart(_)
TrimStart(s) ==
  IF s # <<>> /\ Head(s) \in WhiteSpace THEN TrimStart(Tail(s)) ELSE s

RECURSIVE TrimEnd(_)
TrimEnd(s) ==
  IF s # <<>> /\ s[Len(s)] \in WhiteSpace
    THEN TrimEnd(SubSeq(s, 1, Len(s) - 1))
    ELSE s

Trim(s) == TrimEnd(TrimStart(s))

UpperCaseLetters ==
  <<"A", "B", "C", "D", "E", "F", "G", "H", "I", "J", "K", "L", "M",
    "N", "O", "P", "Q", "R", "S", "T", "U", "V", "W", "X", "Y", "Z">>

LowerCaseLetters ==
  <<"a", "b", "c", "d", "e", "f", "g", "h", "i", "j", "k", "l", "m",
    "n", "o", "p", "q", "r", "s", "t", "u", "v", "w", "x", "y", "z">>

\* String.prototype.toLowerCase, letter by letter.
ToLowerCase(s) ==
  [k \in 1..Len(s) |->
     IF \E u \in 1..Len(UpperCaseLetters) : UpperCaseLetters[u] = s[k]
       THEN LowerCaseLetters[CHOOSE u \in 1..Len(UpperCaseLetters) :
                               UpperCaseLetters[u] = s[k]]
       ELSE s[k]]

DecimalDigits == <<"0", "1", "2", "3", "4", "5", "6", "7", "8", "9">>

\* Number to string, as the template literal `${n}` prints a natural number.
RECURSIVE NumberToString(_)
NumberToString(n) ==
  IF n < Len(DecimalDigits)
    THEN <<DecimalDigits[n + 1]>>
    ELSE NumberToString(n \div Len(DecimalDigits))
           \o <<DecimalDigits[(n % Len(DecimalDigits)) + 1]>>

\* `${idx}.${count[tag]}`
DisplayId(idx, n) == NumberToString(idx) \o <<".">> \o NumberToString(n)

---------------------------------------------------------------------------
(* The DOM the code reads *)

\* A text node: it has no tagName.
Text(data) == [data |-> data]

\* An element.  attributes is a function from attribute names to values.
Element(tagName, attributes, childNodes) ==
  [tagName |-> tagName, attributes |-> attributes, childNodes |-> childNodes]

NoAttributes == [k \in {} |-> <<>>]

IsElement(node) == "tagName" \in DOMAIN node

\* Element.children: the child nodes that are elements.
Children(node) == SelectSeq(node.childNodes, IsElement)

\* Node.textContent: the text of the node and of all its descendants.
RECURSIVE TextContent(_)
TextContent(node) ==
  IF ~IsElement(node)
    THEN node.data
    ELSE LET RECURSIVE Concat(_)
             Concat(k) ==
               IF k > Len(node.childNodes)
                 THEN <<>>
                 ELSE TextContent(node.childNodes[k]) \o Concat(k + 1)
         IN  Concat(1)

\* Document.getElementsByTagName: the element itself excluded, every
\* descendant element of that exact name, in document order.
RECURSIVE GetElementsByTagName(_, _)
GetElementsByTagName(node, name) ==
  LET RECURSIVE Below(_)
      Below(k) ==
        IF k > Len(node.childNodes)
          THEN <<>>
          ELSE LET child == node.childNodes[k]
               IN  (IF IsElement(child)
                      THEN (IF child.tagName = name THEN <<child>> ELSE <<>>)
                             \o GetElementsByTagName(child, name)
                      ELSE <<>>)
                   \o Below(k + 1)
  IN  Below(1)

---------------------------------------------------------------------------
(* src/index.ts *)

Tags ==
  [Expression |-> <<"e">>,
   Definition |-> <<"d", "e", "f">>,
   Diagram    |-> <<"d", "i", "a", "g", "r", "a", "m">>,
   Paragraph  |-> <<"p">>,
   Scenario   |-> <<"s", "c", "e", "n", "a", "r", "i", "o">>,
   Statement  |-> <<"s", "t", "a", "t", "e", "m", "e", "n", "t">>,
   Table      |-> <<"t", "a", "b", "l", "e">>]

Display ==
  [P_TEXT    |-> "plain/text",
   I_TEXT    |-> "input/text",
   I_FORM    |-> "input/form",
   O_TEXT    |-> "output/text",
   O_TABLE   |-> "output/table",
   O_DIAGRAM |-> "output/diagram"]

\* attr[i].getNamedItem(key)?.value
NamedItemValue(attributes, key) ==
  IF key \in DOMAIN attributes THEN attributes[key] ELSE undefined

\* fromAttributes() returning the first value that is present, empty or not
\* (if (value !== undefined) return value).
fromAttributesPresent(key, attr) ==
  LET RECURSIVE Loop(_)
      Loop(k) ==
        IF k > Len(attr)
          THEN undefined
          ELSE LET value == NamedItemValue(attr[k], key)
               IN  IF value # undefined THEN value ELSE Loop(k + 1)
  IN  Loop(1)

\* fromAttributes(key, ...attr): attr is the sequence of attribute maps.
fromAttributes(key, attr) ==
  LET RECURSIVE Loop(_)
      Loop(k) ==
        IF k > Len(attr)
          THEN undefined
          ELSE LET value == NamedItemValue(attr[k], key)
               IN  IF Truthy(value) THEN value ELSE Loop(k + 1)
  IN  Loop(1)

\* count[tag] || 0
CountOf(count, tag) == IF tag \in DOMAIN count THEN count[tag] ELSE 0

\* One counter for all tags: every key holds the number of elements met.
IncrementShared(count, tag) ==
  LET met == IF DOMAIN count = {}
               THEN 0
               ELSE count[CHOOSE t \in DOMAIN count : TRUE]
  IN  [t \in DOMAIN count \cup {tag} |-> met + 1]

\* count[tag] = count[tag] || 1: the count never passes 1.
IncrementStuck(count, tag) ==
  [t \in DOMAIN count \cup {tag} |-> IF t = tag THEN 1 ELSE count[t]]

\* count[tag] = (count[tag] || 0) + 1
Increment(count, tag) ==
  [t \in DOMAIN count \cup {tag} |->
     IF t = tag THEN CountOf(count, tag) + 1 ELSE count[t]]

\* fromAttributes("value", attributes) || textContent?.trim(): the attribute
\* before the text.
ValueOrText(textContent, attributes) ==
  Or(fromAttributes("value", <<attributes>>), Trim(textContent))

\* textContent?.trim() || fromAttributes("value", attributes)
TextOrValue(textContent, attributes) ==
  Or(Trim(textContent), fromAttributes("value", <<attributes>>))

\* The record push() builds for an element of a vocabulary tag.
Content(tag, node, parentAttrs, displayId) ==
  LET attributes == node.attributes
      textContent == TextContent(node)
  IN  CASE tag = Tags.Paragraph ->
             [value     |-> Or(Trim(textContent), <<>>),
              display   |-> Display.P_TEXT,
              displayId |-> displayId]
        [] tag = Tags.Expression ->
             [rel       |-> fromAttributes("rel", <<attributes>>),
              ref       |-> fromAttributes("name", <<attributes>>),
              type      |-> fromAttributes("type", <<attributes>>),
              value     |-> fromAttributes("value", <<attributes>>),
              display   |-> Display.I_TEXT,
              displayId |-> displayId]
        [] tag = Tags.Table ->
             [max       |-> fromAttributes("max", <<attributes>>),
              cols      |-> fromAttributes("cols", <<attributes>>),
              sort      |-> fromAttributes("sort", <<attributes>>),
              fold      |-> fromAttributes("fold", <<attributes>>),
              value     |-> fromAttributes("value", <<attributes, parentAttrs>>),
              display   |-> Display.O_TABLE,
              displayId |-> displayId]
        [] tag = Tags.Diagram ->
             [y         |-> fromAttributes("y", <<attributes>>),
              x         |-> fromAttributes("x", <<attributes>>),
              id        |-> fromAttributes("id", <<attributes>>),
              max       |-> fromAttributes("max", <<attributes>>),
              fold      |-> fromAttributes("fold", <<attributes>>),
              type      |-> fromAttributes("type", <<attributes>>),
              value     |-> fromAttributes("value", <<attributes, parentAttrs>>),
              display   |-> Display.O_DIAGRAM,
              displayId |-> displayId]
        [] tag = Tags.Definition ->
             [def       |-> <<"l", "o", "c", "a", "l">>,
              ref       |-> fromAttributes("name", <<attributes>>),
              type      |-> fromAttributes("type", <<attributes>>),
              value     |-> TextOrValue(textContent, attributes),
              display   |-> Display.I_TEXT,
              displayId |-> displayId]
        [] tag = Tags.Scenario ->
             [type      |-> fromAttributes("type", <<attributes>>),
              value     |-> fromAttributes("value", <<attributes>>),
              display   |-> Display.I_FORM,
              displayId |-> displayId]
        [] tag = Tags.Statement ->
             [value     |-> TextOrValue(textContent, attributes),
              action    |-> fromAttributes("action", <<attributes>>),
              display   |-> Display.O_TEXT,
              displayId |-> displayId]

Vocabulary == {Tags[t] : t \in DOMAIN Tags}

RECURSIVE push(_, _, _, _)

\* push() with one of three slips: the children of an expression are
\* counted from a fresh count; the children of every vocabulary element are
\* pushed, not only those of an expression; the children of an expression
\* are pushed before its own record.
pushWith(node, parentAttrs, c, idx, freshCount, everyTag, childrenFirst) ==
  IF ~IsElement(node)
    THEN c
    ELSE
      LET tag == ToLowerCase(node.tagName)
          count == Increment(c.count, tag)
          record == Content(tag, node, parentAttrs, DisplayId(idx, count[tag]))
          children == Children(node)
          RECURSIVE Loop(_, _)
          Loop(k, cx) ==
            IF k > Len(children)
              THEN cx
              ELSE LET inner == push(children[k], node.attributes,
                                     [stack |-> cx.stack,
                                      count |-> IF freshCount
                                                  THEN [t \in {} |-> 0]
                                                  ELSE cx.count],
                                     idx)
                   IN  Loop(k + 1, [stack |-> inner.stack,
                                    count |-> IF freshCount
                                                THEN cx.count
                                                ELSE inner.count])
      IN  IF tag \notin Vocabulary
            THEN [stack |-> c.stack, count |-> count]
            ELSE IF tag = Tags.Expression \/ everyTag
                   THEN IF childrenFirst
                          THEN LET after == Loop(1, [stack |-> c.stack,
                                                     count |-> count])
                               IN  [stack |-> Append(after.stack, record),
                                    count |-> after.count]
                          ELSE Loop(1, [stack |-> Append(c.stack, record),
                                        count |-> count])
                   ELSE [stack |-> Append(c.stack, record), count |-> count]

pushFreshCount(node, parentAttrs, c, idx) ==
  pushWith(node, parentAttrs, c, idx, TRUE, FALSE, FALSE)

pushEveryTag(node, parentAttrs, c, idx) ==
  pushWith(node, parentAttrs, c, idx, FALSE, TRUE, FALSE)

pushChildrenFirst(node, parentAttrs, c, idx) ==
  pushWith(node, parentAttrs, c, idx, FALSE, FALSE, TRUE)

\* push(node, { stack, count }, idx); parentAttrs is the attributes of
\* node.parentElement.  The result is the IterContext after the call.
push(node, parentAttrs, c, idx) ==
  IF ~IsElement(node)
    THEN c
    ELSE
      LET tag == ToLowerCase(node.tagName)
          count == Increment(c.count, tag)
          displayId == DisplayId(idx, count[tag])
          pushed == [stack |-> Append(c.stack,
                                      Content(tag, node, parentAttrs, displayId)),
                     count |-> count]
          children == Children(node)
          RECURSIVE Loop(_, _)
          Loop(k, cx) ==
            IF k > Len(children)
              THEN cx
              ELSE Loop(k + 1, push(children[k], node.attributes, cx, idx))
      IN  IF tag = Tags.Expression
            THEN Loop(1, pushed)
            ELSE IF tag \in Vocabulary
                   THEN pushed
                   ELSE [stack |-> c.stack, count |-> count]

\* No filter: every record is kept.
FilterNothing(stack) == stack

\* ctx.stack.filter(a => a.value)
FilterByValue(stack) == SelectSeq(stack, LAMBDA a : Truthy(a.value))

\* const ctx: IterContext = { stack: [], count: {} }
NewContext == [stack |-> <<>>, count |-> [t \in {} |-> 0]]

\* xml.getElementsByTagName("article")
AllArticles(doc) ==
  GetElementsByTagName(doc, <<"a", "r", "t", "i", "c", "l", "e">>)

\* The def elements found article by article, those outside every article
\* left out.
AllDefinitionsInArticles(doc) ==
  LET all == AllArticles(doc)
      RECURSIVE Loop(_)
      Loop(k) ==
        IF k > Len(all)
          THEN <<>>
          ELSE GetElementsByTagName(all[k], <<"d", "e", "f">>) \o Loop(k + 1)
  IN  Loop(1)

\* xml.getElementsByTagName("def")
AllDefinitions(doc) == GetElementsByTagName(doc, <<"d", "e", "f">>)

\* The body of the loop of iterEachTerminology, for every element of all.
Terminologies(all) ==
  [k \in 1..Len(all) |->
     [name  |-> fromAttributes("name", <<all[k].attributes>>),
      value |-> fromAttributes("value", <<all[k].attributes>>)]]

\* The object parse() returns.
Issue(doc, arts, terms) ==
  LET attributes == doc.childNodes[1].attributes
  IN  [terminology |-> terms,
       articles    |-> arts,
       language    |-> fromAttributes("language", <<attributes>>),
       currency    |-> fromAttributes("currency", <<attributes>>),
       version     |-> fromAttributes("version", <<attributes>>)]

---------------------------------------------------------------------------
(* The documents parse() is run on *)

\* The most nodes (text written inside a leaf element not counted) below
\* the root element of a document.
MaxNodes == 3

\* A document is drawn as a forest of at most MaxNodes blocks below the
\* root element.  A block is a text node or an element with its own text;
\* the blocks are numbered in document order, and parent[k] is the number
\* of the block that holds block k (0: the root element).

\* The blocks block k lies in, itself included, and 0.
RECURSIVE Ancestors(_, _)
Ancestors(parent, k) ==
  IF k = 0 THEN {0} ELSE {k} \cup Ancestors(parent, parent[k])

\* Document order: a block lies in its predecessor or in one of the
\* blocks its predecessor lies in.
InDocumentOrder(parent) ==
  \A k \in DOMAIN parent : parent[k] \in Ancestors(parent, k - 1)

\* Only an element holds other blocks.
HeldByElements(parent, block) ==
  \A k \in DOMAIN parent :
    IF parent[k] = 0 THEN TRUE ELSE IsElement(block[parent[k]])

\* The node of block k with the blocks it holds as its last child nodes.
RECURSIVE Tree(_, _, _)
Tree(parent, block, k) ==
  LET RECURSIVE Held(_)
      Held(m) ==
        IF m > Len(parent)
          THEN <<>>
          ELSE (IF parent[m] = k THEN <<Tree(parent, block, m)>> ELSE <<>>)
                 \o Held(m + 1)
  IN  IF IsElement(block[k])
        THEN Element(block[k].tagName, block[k].attributes,
                     block[k].childNodes \o Held(k + 1))
        ELSE block[k]

\* The child nodes of the root element.
Forest(parent, block) ==
  LET RECURSIVE Held(_)
      Held(m) ==
        IF m > Len(parent)
          THEN <<>>
          ELSE (IF parent[m] = 0 THEN <<Tree(parent, block, m)>> ELSE <<>>)
                 \o Held(m + 1)
  IN  Held(1)

\* The root element, as in the test's template.
Root(childNodes) ==
  Element(<<"t", "e", "m", "p", "l", "a", "t", "e">>,
          [language |-> <<"r", "o", "-", "R", "O">>,
           currency |-> <<"R", "O", "N">>,
           version  |-> <<"1", ".", "0">>],
          childNodes)

\* A Document: its only child is the root element.
Document(root) == [childNodes |-> <<root>>]

Hello == <<"H", "e", "l", "l", "o">>

ArticleBlock ==
  Element(<<"a", "r", "t", "i", "c", "l", "e">>, [title |-> <<"T">>], <<>>)

\* An article that already holds the paragraph "Hello".
FilledArticleBlock ==
  Element(<<"a", "r", "t", "i", "c", "l", "e">>, [title |-> <<"F">>],
          <<Element(<<"p">>, NoAttributes, <<Text(Hello)>>)>>)

\* Every way the walk can treat a node: text between elements, kept and
\* dropped records, nesting, an unknown tag, an upper-case tag.
ShapeBlocks ==
  {Text(<<"\n", " ">>),
   ArticleBlock,
   FilledArticleBlock,
   Element(<<"p">>, NoAttributes, <<Text(Hello)>>),
   Element(<<"p">>, NoAttributes, <<>>),
   Element(<<"e">>, [name |-> <<"E">>, value |-> <<"1">>], <<>>),
   Element(<<"e">>, [name |-> <<"S">>], <<>>),
   Element(<<"n", "o", "t", "e">>, [value |-> <<"3">>], <<>>),
   Element(<<"P">>, NoAttributes, <<Text(<<"H", "i">>)>>)}

\* One kept element of every display kind.
KindBlocks ==
  {ArticleBlock,
   Element(<<"p">>, NoAttributes, <<Text(Hello)>>),
   Element(<<"e">>, [name |-> <<"E">>, value |-> <<"1">>], <<>>),
   Element(<<"d", "e", "f">>, [name |-> <<"D">>, value |-> <<"2">>], <<>>),
   Element(<<"s", "c", "e", "n", "a", "r", "i", "o">>,
           [type |-> <<"t">>, value |-> <<"3">>], <<>>),
   Element(<<"s", "t", "a", "t", "e", "m", "e", "n", "t">>,
           [action |-> <<"a">>], <<Text(<<"4">>)>>),
   Element(<<"t", "a", "b", "l", "e">>,
           [cols |-> <<"d", "s">>, value |-> <<"5">>], <<>>),
   Element(<<"d", "i", "a", "g", "r", "a", "m">>,
           [max |-> <<"3">>, value |-> <<"6">>], <<>>)}

\* Definitions with and without text and value attribute, wherever a block
\* may lie: below the root, in an article, in an expression, in a paragraph.
DefinitionBlocks ==
  {ArticleBlock,
   Element(<<"p">>, NoAttributes, <<>>),
   Element(<<"e">>, [value |-> <<"1">>], <<>>),
   Element(<<"d", "e", "f">>, [name |-> <<"a">>], <<>>),
   Element(<<"d", "e", "f">>, [name |-> <<"b">>, value |-> <<"v">>], <<>>),
   Element(<<"d", "e", "f">>, [name |-> <<"c">>, value |-> <<>>], <<>>),
   Element(<<"d", "e", "f">>, [name |-> <<"d">>, value |-> <<"v">>],
           <<Text(<<" ", "\n">>)>>),
   Element(<<"d", "e", "f">>, [name |-> <<"e">>, value |-> <<"v">>],
           <<Text(<<" ", "x", "\n">>)>>),
   Element(<<"d", "e", "f">>, [value |-> <<"w">>], <<Text(<<"y", " ", "z">>)>>),
   Element(<<"D", "E", "F">>, [name |-> <<"g">>, value |-> <<"v">>], <<>>)}

\* Tables and diagrams with no, an empty and a non-empty value attribute,
\* in articles and expressions with no, an empty and a non-empty one.
AttributeBlocks ==
  {ArticleBlock,
   Element(<<"a", "r", "t", "i", "c", "l", "e">>,
           [title |-> <<"V">>, value |-> <<"b">>], <<>>),
   Element(<<"e">>, [value |-> <<>>], <<>>),
   Element(<<"e">>, [value |-> <<"c">>], <<>>),
   Element(<<"t", "a", "b", "l", "e">>, [cols |-> <<"d", "s">>], <<>>),
   Element(<<"t", "a", "b", "l", "e">>, [value |-> <<>>], <<>>),
   Element(<<"t", "a", "b", "l", "e">>,
           [max |-> <<"1", "0">>, value |-> <<"a">>], <<>>),
   Element(<<"d", "i", "a", "g", "r", "a", "m">>, [type |-> <<"t">>], <<>>),
   Element(<<"d", "i", "a", "g", "r", "a", "m">>,
           [value |-> <<"a">>, x |-> <<"d">>], <<>>)}

Euro == <<"E", "u", "r", "o">>

Sub == <<"S", "u", "b">>

\* Expressions named Euro and Sub, with and without a value.
ExpressionBlocks ==
  {Text(<<"\n">>),
   ArticleBlock,
   Element(<<"e">>, [name |-> Euro], <<>>),
   Element(<<"e">>, [name |-> Sub], <<>>),
   Element(<<"e">>, [name |-> Euro, value |-> <<"1">>], <<>>),
   Element(<<"e">>, [name |-> Sub, value |-> <<"2">>], <<>>)}

---------------------------------------------------------------------------
(* parse(): Parser.iterEach and the returned Issue *)

InitOn(blocks) ==
  /\ \E n \in 0..MaxNodes :
       \E parent \in {p \in [1..n -> 0..n] : InDocumentOrder(p)} :
         \E block \in {b \in [1..n -> blocks] : HeldByElements(parent, b)} :
           xml = Document(Root(Forest(parent, block)))
  /\ pc = "iterEachArticle"
  /\ i = 0
  /\ j = 0
  /\ ctx = NewContext
  /\ articles = <<>>
  /\ terminology = <<>>
  /\ issue = undefined

\* One iteration of the inner loop of iterEachArticle:
\* push(childNodes.item(j), ctx, i + 1).
PushChild ==
  /\ pc = "iterEachArticle"
  /\ i < Len(AllArticles(xml))
  /\ LET article == AllArticles(xml)[i + 1]
     IN  /\ j < Len(article.childNodes)
         /\ ctx' = push(article.childNodes[j + 1], article.attributes, ctx, i + 1)
  /\ j' = j + 1
  /\ UNCHANGED <<xml, pc, i, articles, terminology, issue>>

\* The end of one iteration of the outer loop of iterEachArticle:
\* this.articles.add({ title, content }), and the fresh ctx of the next.
AddArticle ==
  /\ pc = "iterEachArticle"
  /\ i < Len(AllArticles(xml))
  /\ LET article == AllArticles(xml)[i + 1]
         title == fromAttributes("title", <<article.attributes>>)
     IN  /\ j = Len(article.childNodes)
         /\ articles' = Append(articles, [title   |-> title,
                                          content |-> FilterByValue(ctx.stack)])
  /\ i' = i + 1
  /\ j' = 0
  /\ ctx' = NewContext
  /\ UNCHANGED <<xml, pc, terminology, issue>>

\* this.iterEachTerminology(xml), once the loop over the articles has ended.
IterEachTerminology ==
  /\ pc = "iterEachArticle"
  /\ i = Len(AllArticles(xml))
  /\ terminology' = terminology \o Terminologies(AllDefinitions(xml))
  /\ pc' = "return"
  /\ UNCHANGED <<xml, i, j, ctx, articles, issue>>

\* The return statement of parse().
Return ==
  /\ pc = "return"
  /\ issue' = Issue(xml, articles, terminology)
  /\ pc' = "done"
  /\ UNCHANGED <<xml, i, j, ctx, articles, terminology>>

Next == PushChild \/ AddArticle \/ IterEachTerminology \/ Return

InitShape == InitOn(ShapeBlocks)

SpecShape == InitShape /\ [][Next]_vars

InitKinds == InitOn(KindBlocks)

SpecKinds == InitKinds /\ [][Next]_vars

InitDefinitions == InitOn(DefinitionBlocks)

SpecDefinitions == InitDefinitions /\ [][Next]_vars

InitAttributes == InitOn(AttributeBlocks)

SpecAttributes == InitAttributes /\ [][Next]_vars

InitExpressions == InitOn(ExpressionBlocks)

SpecExpressions == InitExpressions /\ [][Next]_vars

---------------------------------------------------------------------------
(* What the properties below are stated in: the walk as the specification *)
(* describes it, computed from the document alone.                         *)

Numeral == <<"1", "2", "3", "4", "5", "6", "7", "8", "9">>

\* "A.n" for one-digit A and n.
Shown(A, n) == <<Numeral[A], ".", Numeral[n]>>

ArticleTag == <<"a", "r", "t", "i", "c", "l", "e">>

VocabularyTags ==
  {<<"p">>, <<"e">>, <<"d", "e", "f">>,
   <<"s", "c", "e", "n", "a", "r", "i", "o">>,
   <<"s", "t", "a", "t", "e", "m", "e", "n", "t">>,
   <<"t", "a", "b", "l", "e">>,
   <<"d", "i", "a", "g", "r", "a", "m">>}

\* The tag of an element, case-insensitively.
TagOf(node) == ToLowerCase(node.tagName)

Recognized(node) == IsElement(node) /\ TagOf(node) \in VocabularyTags

DisplayOfTag(tag) ==
  CASE tag = <<"p">> -> "plain/text"
    [] tag = <<"e">> -> "input/text"
    [] tag = <<"d", "e", "f">> -> "input/text"
    [] tag = <<"s", "c", "e", "n", "a", "r", "i", "o">> -> "input/form"
    [] tag = <<"s", "t", "a", "t", "e", "m", "e", "n", "t">> -> "output/text"
    [] tag = <<"t", "a", "b", "l", "e">> -> "output/table"
    [] tag = <<"d", "i", "a", "g", "r", "a", "m">> -> "output/diagram"

\* The elements a walk over the sibling nodes visits, in document pre-order:
\* each element of nodes and, beneath an expression only, its element
\* children in turn.  Each is listed with the attributes of its parent.
\* nested tells whether the parent is an expression.
RECURSIVE Visited(_, _, _)
Visited(nodes, parentAttrs, nested) ==
  IF nodes = <<>>
    THEN <<>>
    ELSE LET node == Head(nodes)
         IN  (IF IsElement(node)
                THEN <<[node |-> node, parent |-> parentAttrs,
                        nested |-> nested]>>
                       \o (IF TagOf(node) = <<"e">>
                             THEN Visited(node.childNodes, node.attributes, TRUE)
                             ELSE <<>>)
                ELSE <<>>)
             \o Visited(Tail(nodes), parentAttrs, nested)

\* Those of them whose tag is in the vocabulary.
Met(nodes, parentAttrs) ==
  SelectSeq(Visited(nodes, parentAttrs, FALSE), LAMBDA v : Recognized(v.node))

\* How many of the first m entries of V have the tag of the m-th.
Occurrence(V, m) ==
  Cardinality({n \in 1..m : TagOf(V[n].node) = TagOf(V[m].node)})

\* How many entries of V have the tag.
Tally(V, tag) == Cardinality({n \in 1..Len(V) : TagOf(V[n].node) = tag})

\* An article is being walked: its first j child nodes have been pushed.
Walking == pc = "iterEachArticle" /\ i < Len(AllArticles(xml))

WalkedArticle == AllArticles(xml)[i + 1]

VisitedSoFar ==
  Visited(SubSeq(WalkedArticle.childNodes, 1, j), WalkedArticle.attributes,
          FALSE)

MetSoFar ==
  Met(SubSeq(WalkedArticle.childNodes, 1, j), WalkedArticle.attributes)

WalkFinished == Walking /\ j = Len(WalkedArticle.childNodes)

\* The m-th record of the stack is the one built for the m-th element of V:
\* it has the display kind of that element's tag (and the def field exactly
\* when the tag is def).
BuiltFor(stack, V) ==
  /\ Len(stack) = Len(V)
  /\ \A m \in 1..Len(V) :
       /\ stack[m].display = DisplayOfTag(TagOf(V[m].node))
       /\ ("def" \in DOMAIN stack[m]) <=> (TagOf(V[m].node) = <<"d", "e", "f">>)

\* The document's first article has exactly these child nodes.
FirstArticleHolds(childNodes) ==
  /\ Len(AllArticles(xml)) >= 1
  /\ AllArticles(xml)[1].childNodes = childNodes

---------------------------------------------------------------------------
\* C1: during the walk of the article of ordinal A, the record built for
\* the n-th element of a vocabulary tag T met so far has displayId "A.n";
\* n counts the occurrences of T in this article alone, those nested in
\* expressions and those whose record has no value included.
C1_DisplayId ==
  Walking =>
    /\ BuiltFor(ctx.stack, MetSoFar)
    /\ \A m \in 1..Len(MetSoFar) :
         ctx.stack[m].displayId = Shown(i + 1, Occurrence(MetSoFar, m))

\* The second article's walk has ended: its first record is "2.1" and has
\* no value, although the first article counted an element of its tag.
C1_Witness ==
  /\ WalkFinished
  /\ i = 1
  /\ Len(ctx.stack) >= 1
  /\ ctx.stack[1].displayId = <<"2", ".", "1">>
  /\ ~Truthy(ctx.stack[1].value)
  /\ LET first == AllArticles(xml)[1]
     IN  Tally(Met(first.childNodes, first.attributes),
               TagOf(MetSoFar[1].node)) >= 1

\* C2: every record of an article's content has a non-empty value; the
\* article with the paragraphs "Hello" and "" counts two paragraphs and
\* keeps one record: plain/text, "Hello", "1.1".
C2_NonEmptyValues ==
  /\ \A a \in 1..Len(articles) :
       \A m \in 1..Len(articles[a].content) :
         /\ articles[a].content[m].value # <<>>
         /\ articles[a].content[m].value # undefined
  /\ FirstArticleHolds(<<Element(<<"p">>, NoAttributes, <<Text(Hello)>>),
                         Element(<<"p">>, NoAttributes, <<>>)>>) =>
       /\ (WalkFinished /\ i = 0) => ctx.count[<<"p">>] = 2
       /\ Len(articles) >= 1 =>
            articles[1].content =
              <<[value |-> Hello, display |-> "plain/text",
                 displayId |-> <<"1", ".", "1">>]>>

C2_Witness ==
  /\ FirstArticleHolds(<<Element(<<"p">>, NoAttributes, <<Text(Hello)>>),
                         Element(<<"p">>, NoAttributes, <<>>)>>)
  /\ pc = "done"
  /\ Len(issue.articles[1].content) = 1

\* The node the next call of push() in the article's loop is given.
NextChild == WalkedArticle.childNodes[j + 1]

\* This step is that call.
PushesChild == Walking /\ j' = j + 1

\* C4 as stated: a non-element node or an element of a tag outside the
\* vocabulary adds no record and advances no counter of the mapping.
C4_Original ==
  [][(PushesChild /\ ~Recognized(NextChild)) => ctx' = ctx]_vars

\* C4 as amended: such a node adds no record and advances the counter of no
\* vocabulary tag; a non-element node advances no counter at all, while an
\* element of an unknown tag advances the counter kept under its own
\* lower-cased tag name, which no displayId reads.  The same holds of the
\* nodes met beneath expressions: the stack holds one record per vocabulary
\* element met, and a vocabulary tag's counter is the number of them.
C4_IgnoredNodes ==
  [][/\ (PushesChild /\ ~Recognized(NextChild)) =>
          /\ ctx'.stack = ctx.stack
          /\ \A t \in VocabularyTags :
               CountOf(ctx'.count, t) = CountOf(ctx.count, t)
          /\ IF IsElement(NextChild)
               THEN /\ DOMAIN ctx'.count = DOMAIN ctx.count \cup {TagOf(NextChild)}
                    /\ \A t \in DOMAIN ctx'.count :
                         ctx'.count[t] =
                           CountOf(ctx.count, t)
                             + (IF t = TagOf(NextChild) THEN 1 ELSE 0)
               ELSE ctx'.count = ctx.count
     /\ Walking =>
          /\ Len(ctx.stack) = Len(MetSoFar)
          /\ \A t \in VocabularyTags :
               CountOf(ctx.count, t) = Tally(MetSoFar, t)]_vars

\* An element of an unknown tag has been pushed after a vocabulary element,
\* and a text node as well.
C4_Witness ==
  /\ Walking
  /\ j >= 3
  /\ Recognized(WalkedArticle.childNodes[1])
  /\ IsElement(WalkedArticle.childNodes[2])
  /\ ~Recognized(WalkedArticle.childNodes[2])
  /\ ~IsElement(WalkedArticle.childNodes[3])
  /\ Len(ctx.stack) = 1

\* C8: during an article's walk the children of expressions, and of no
\* other element, are visited: the stack holds exactly the records of the
\* vocabulary elements that are children of the article or of a visited
\* expression, the nested ones numbered with the article's ordinal from the
\* same counters, and every counter is the number of such elements of its
\* tag, so that an element beneath any other element counts nowhere.
C8_OnlyExpressionsRecurse ==
  Walking =>
    /\ BuiltFor(ctx.stack, MetSoFar)
    /\ \A m \in 1..Len(MetSoFar) :
         MetSoFar[m].nested =>
           ctx.stack[m].displayId = Shown(i + 1, Occurrence(MetSoFar, m))
    /\ \A v \in 1..Len(VisitedSoFar) :
         TagOf(VisitedSoFar[v].node) \in DOMAIN ctx.count
    /\ \A t \in DOMAIN ctx.count : ctx.count[t] = Tally(VisitedSoFar, t)

\* A vocabulary element lies beneath a paragraph, a definition or an unknown
\* element of the walked article, and has left no record.
C8_Witness ==
  /\ WalkFinished
  /\ \E k \in 1..Len(WalkedArticle.childNodes) :
       LET node == WalkedArticle.childNodes[k]
       IN  /\ IsElement(node)
           /\ TagOf(node) # <<"e">>
           /\ \E c \in 1..Len(node.childNodes) : Recognized(node.childNodes[c])
  /\ Len(ctx.stack) <= 1

\* sub lists, in the order of full, exactly the records of full that have a
\* non-empty value.
KeepsOrder(sub, full) ==
  \E f \in [1..Len(sub) -> 1..Len(full)] :
    /\ \A k, l \in 1..Len(sub) : k < l => f[k] < f[l]
    /\ \A k \in 1..Len(sub) : sub[k] = full[f[k]]
    /\ \A m \in 1..Len(full) :
         (full[m].value # <<>> /\ full[m].value # undefined)
           <=> (\E k \in 1..Len(sub) : f[k] = m)

---------------------------------------------------------------------------
IsTableOrDiagram(node) ==
  TagOf(node) \in {<<"t", "a", "b", "l", "e">>,
                   <<"d", "i", "a", "g", "r", "a", "m">>}

HasAttribute(attributes, key) == key \in DOMAIN attributes

HasNonEmpty(attributes, key) ==
  key \in DOMAIN attributes /\ attributes[key] # <<>>

\* Two values are the same to a reader who does not tell an empty value
\* from an absent one.
SameValue(v, w) == v = w \/ (~Truthy(v) /\ ~Truthy(w))

\* C3 as stated: the value of a table or diagram record is the element's own
\* value attribute if it has one, else its parent's if that has one, else
\* absent.  (Read with an empty value taken for an absent one.)
C3_Original ==
  (Walking /\ Len(ctx.stack) = Len(MetSoFar)) =>
    \A m \in 1..Len(MetSoFar) :
      IsTableOrDiagram(MetSoFar[m].node) =>
        SameValue(ctx.stack[m].value,
                  IF HasAttribute(MetSoFar[m].node.attributes, "value")
                    THEN MetSoFar[m].node.attributes["value"]
                    ELSE IF HasAttribute(MetSoFar[m].parent, "value")
                           THEN MetSoFar[m].parent["value"]
                           ELSE undefined)

\* C3 as amended: the value is the element's own value attribute if it has
\* a non-empty one, else its parent's if that has a non-empty one, else
\* absent: an empty value attribute counts as none.
C3_TableValue ==
  Walking =>
    /\ BuiltFor(ctx.stack, MetSoFar)
    /\ \A m \in 1..Len(MetSoFar) :
         IsTableOrDiagram(MetSoFar[m].node) =>
           ctx.stack[m].value =
             (IF HasNonEmpty(MetSoFar[m].node.attributes, "value")
                THEN MetSoFar[m].node.attributes["value"]
                ELSE IF HasNonEmpty(MetSoFar[m].parent, "value")
                       THEN MetSoFar[m].parent["value"]
                       ELSE undefined)

\* A table with an empty value attribute has taken the value of its parent.
C3_Witness ==
  /\ Walking
  /\ \E m \in 1..Len(MetSoFar) :
       /\ m <= Len(ctx.stack)
       /\ IsTableOrDiagram(MetSoFar[m].node)
       /\ HasAttribute(MetSoFar[m].node.attributes, "value")
       /\ HasNonEmpty(MetSoFar[m].parent, "value")
       /\ ctx.stack[m].value = MetSoFar[m].parent["value"]
       /\ ctx.stack[m].value # MetSoFar[m].node.attributes["value"]

\* t is s without the white space at its two ends.
IsTrimOf(t, s) ==
  \E a, b \in 0..Len(s) :
    /\ a + b <= Len(s)
    /\ t = SubSeq(s, a + 1, Len(s) - b)
    /\ \A k \in 1..a : s[k] \in {" ", "\n", "\t"}
    /\ \A k \in (Len(s) - b + 1)..Len(s) : s[k] \in {" ", "\n", "\t"}
    /\ t # <<>> => /\ t[1] \notin {" ", "\n", "\t"}
                   /\ t[Len(t)] \notin {" ", "\n", "\t"}

\* C5: the value of a definition's record is the element's trimmed text
\* whenever that is non-empty, a value attribute or not; the value attribute
\* is used only when the trimmed text is empty.
C5_DefinitionValue ==
  Walking =>
    /\ BuiltFor(ctx.stack, MetSoFar)
    /\ \A m \in 1..Len(MetSoFar) :
         TagOf(MetSoFar[m].node) = <<"d", "e", "f">> =>
           LET node == MetSoFar[m].node
               value == ctx.stack[m].value
           IN  IF IsTrimOf(<<>>, TextContent(node))
                 THEN value = (IF HasNonEmpty(node.attributes, "value")
                                 THEN node.attributes["value"]
                                 ELSE undefined)
                 ELSE /\ value # <<>>
                      /\ IsTrimOf(value, TextContent(node))

\* A definition with text between white space and a value attribute has
\* the text alone as its value.
C5_Witness ==
  /\ Walking
  /\ \E m \in 1..Len(MetSoFar) :
       /\ m <= Len(ctx.stack)
       /\ TagOf(MetSoFar[m].node) = <<"d", "e", "f">>
       /\ HasNonEmpty(MetSoFar[m].node.attributes, "value")
       /\ TextContent(MetSoFar[m].node) = <<" ", "x", "\n">>
       /\ ctx.stack[m].value = <<"x">>

\* Every element below the node, in document order.
RECURSIVE Descendants(_)
Descendants(node) ==
  LET RECURSIVE Below(_)
      Below(k) ==
        IF k > Len(node.childNodes)
          THEN <<>>
          ELSE (IF IsElement(node.childNodes[k])
                  THEN <<node.childNodes[k]>> \o Descendants(node.childNodes[k])
                  ELSE <<>>)
                 \o Below(k + 1)
  IN  Below(1)

IsDef(node) == node.tagName = <<"d", "e", "f">>

IsArticle(node) == node.tagName = ArticleTag

\* The def elements of the document, in document order.
DocumentDefs == SelectSeq(Descendants(xml), IsDef)

\* The articles of the document, in document order.
DocumentArticles == SelectSeq(Descendants(xml), IsArticle)

AttributeOrAbsent(attributes, key) ==
  IF HasNonEmpty(attributes, key) THEN attributes[key] ELSE undefined

\* One Terminology entry per def element of the document, in document order.
TerminologyOfDefs(terms) ==
  /\ Len(terms) = Len(DocumentDefs)
  /\ \A k \in 1..Len(DocumentDefs) :
       /\ terms[k].name = AttributeOrAbsent(DocumentDefs[k].attributes, "name")
       /\ terms[k].value = AttributeOrAbsent(DocumentDefs[k].attributes, "value")

\* The records of definitions in a content sequence.
DefinitionRecords(content) == SelectSeq(content, LAMBDA r : "def" \in DOMAIN r)

\* C6 as stated: every def element of the document yields one Terminology
\* entry, in document order, and every def element inside an article yields
\* a Content entry in that article's content as well.
C6_Original ==
  pc = "done" =>
    /\ TerminologyOfDefs(issue.terminology)
    /\ Len(issue.articles) = Len(DocumentArticles)
    /\ \A a \in 1..Len(DocumentArticles) :
         Len(DefinitionRecords(issue.articles[a].content))
           >= Len(SelectSeq(Descendants(DocumentArticles[a]), IsDef))

\* The element has a value for its record: text that is not all white space,
\* or a non-empty value attribute.
HasTextOrValue(node) ==
  ~IsTrimOf(<<>>, TextContent(node)) \/ HasNonEmpty(node.attributes, "value")

\* The definitions the walk of the article meets that have a value.
KeptDefinitions(article) ==
  SelectSeq(Met(article.childNodes, article.attributes),
            LAMBDA v : TagOf(v.node) = <<"d", "e", "f">> /\ HasTextOrValue(v.node))

\* C6 as amended: every def element of the document, wherever it lies,
\* yields one Terminology entry, in document order; a definition yields a
\* Content entry in an article's content exactly when it is a child of the
\* article or of an expression its walk visits, and its trimmed text or its
\* value attribute is non-empty.
C6_Terminology ==
  pc = "done" =>
    /\ TerminologyOfDefs(issue.terminology)
    /\ Len(issue.articles) = Len(DocumentArticles)
    /\ \A a \in 1..Len(DocumentArticles) :
         LET records == DefinitionRecords(issue.articles[a].content)
             kept == KeptDefinitions(DocumentArticles[a])
         IN  /\ Len(records) = Len(kept)
             /\ \A k \in 1..Len(kept) :
                  records[k].ref = AttributeOrAbsent(kept[k].node.attributes, "name")

\* The document holds a def element outside every article and an article
\* with a def element that has a value: two Terminology entries, and one
\* Content entry in the article.
C6_Witness ==
  /\ pc = "done"
  /\ Len(issue.terminology) = 2
  /\ Len(xml.childNodes[1].childNodes) = 2
  /\ IsDef(xml.childNodes[1].childNodes[1])
  /\ IsArticle(xml.childNodes[1].childNodes[2])
  /\ Len(issue.articles) = 1
  /\ Len(DefinitionRecords(issue.articles[1].content)) = 1

\* The expression named Euro that holds the expression named Sub.
EuroHoldingSub ==
  Element(<<"e">>, [name |-> Euro],
          <<Element(<<"e">>, [name |-> Sub], <<>>)>>)

EuroHoldingSubWithValues ==
  Element(<<"e">>, [name |-> Euro, value |-> <<"1">>],
          <<Element(<<"e">>, [name |-> Sub, value |-> <<"2">>], <<>>)>>)

\* C7 as stated: the first article, holding the expression with only
\* name="Euro" that holds the expression with only name="Sub", yields two
\* input/text records, "1.1" and "1.2".
C7_Original ==
  (FirstArticleHolds(<<EuroHoldingSub>>) /\ Len(articles) >= 1) =>
    /\ Len(articles[1].content) = 2
    /\ articles[1].content[1].display = "input/text"
    /\ articles[1].content[1].displayId = <<"1", ".", "1">>
    /\ articles[1].content[2].display = "input/text"
    /\ articles[1].content[2].displayId = <<"1", ".", "2">>

\* C7 as amended: the walk of that article builds two input/text records,
\* "1.1" for the outer and "1.2" for the nested expression; neither has a
\* value, so both are dropped and the article's content is empty.  With a
\* non-empty value attribute on each expression the article yields the two
\* records, "1.1" and "1.2".
C7_NestedExpression ==
  /\ FirstArticleHolds(<<EuroHoldingSub>>) =>
       /\ (WalkFinished /\ i = 0) =>
            /\ Len(ctx.stack) = 2
            /\ \A m \in 1..2 : /\ ctx.stack[m].display = "input/text"
                               /\ ctx.stack[m].value = undefined
            /\ ctx.stack[1].ref = Euro
            /\ ctx.stack[1].displayId = <<"1", ".", "1">>
            /\ ctx.stack[2].ref = Sub
            /\ ctx.stack[2].displayId = <<"1", ".", "2">>
       /\ Len(articles) >= 1 => articles[1].content = <<>>
  /\ (FirstArticleHolds(<<EuroHoldingSubWithValues>>) /\ Len(articles) >= 1) =>
       /\ Len(articles[1].content) = 2
       /\ articles[1].content[1].display = "input/text"
       /\ articles[1].content[1].ref = Euro
       /\ articles[1].content[1].displayId = <<"1", ".", "1">>
       /\ articles[1].content[2].display = "input/text"
       /\ articles[1].content[2].ref = Sub
       /\ articles[1].content[2].displayId = <<"1", ".", "2">>

\* The walk of the article holding Euro holding Sub has ended.
C7_Witness ==
  /\ FirstArticleHolds(<<EuroHoldingSub>>)
  /\ WalkFinished
  /\ i = 0
  /\ Len(ctx.stack) = 2

\* C10: in one article's content two records of the same tag never share a
\* displayId, and two records share display kind and displayId only when
\* one was built from a definition and the other from an expression.
C10_UniqueDisplayId ==
  \A a \in 1..Len(articles) :
    LET content == articles[a].content
    IN  \A m, n \in 1..Len(content) :
          (m # n /\ content[m].displayId = content[n].displayId
                 /\ content[m].display = content[n].display) =>
            /\ content[m].display = "input/text"
            /\ ("def" \in DOMAIN content[m]) # ("def" \in DOMAIN content[n])

\* An article's content is a definition and an expression, both input/text
\* and both "1.1".
C10_Witness ==
  \E a \in 1..Len(articles) :
    LET content == articles[a].content
    IN  /\ \E m, n \in 1..Len(content) :
             /\ "def" \in DOMAIN content[m]
             /\ "def" \notin DOMAIN content[n]
             /\ content[m].display = content[n].display
             /\ content[m].displayId = content[n].displayId
        /\ Len(content) = 2

=============================================================================
